---- MODULE Spec2Model ----
(***************************************************************************)
(* Task wiring of the application generator (src/unnamed/part_000) and of  *)
(* the CSS task generator (src/css.js).                                    *)
(*                                                                         *)
(* A JavaScript string is modelled as a sequence of tokens, so that        *)
(* concatenation is \o and indexOf is a search for a sub-sequence.         *)
(* Task names are split at ':' ("css:build:480" is                         *)
(* <<"css", ":", "build", ":", "480">>), package names at '-'.             *)
(***************************************************************************)
EXTENDS Integers, Sequences, FiniteSets, TLC

VARIABLES
    phase,        \* "startup" | "registered" | "running"
    config,       \* the generator's argument: [type, vars as supplied]
    configVars,   \* the object config.vars (mutated in place by the generator)
    definePlugin, \* what new webpack.DefinePlugin(...) was given
    bundled,      \* the definitions the bundler substituted, once it has run
    cssOptions,   \* generator.options of src/css.js
    tasks,        \* runner.tasks: the registry, name -> task
    packageData,  \* package.json: [dependencies, devDependencies]
    root,         \* the task handed to runner.run from the command line
    st,           \* per task instance: "idle" | "running" | "done" | "missing"
    calls,        \* per task instance: the arguments its completion callback got
    css,          \* per resolution: the state of build() of src/css.js
    init,         \* the state of the 'init' task
    failures      \* number of underlying operations that failed so far

vars == <<phase, config, configVars, definePlugin, bundled, cssOptions, tasks,
          packageData, root, st, calls, css, init, failures>>

\* ------------------------------------------------------------------ bounds

\* at most this many names in each of dependencies / devDependencies
MaxDeps == 2
\* at most this many underlying operations fail in one run
MaxFailures == 2
\* the first MaxResolutions of the four screen resolutions are built
MaxResolutions == 2

\* ------------------------------------------------------------ strings

N2(a, b) == <<a, ":", b>>
N3(a, b, c) == <<a, ":", b, ":", c>>

\* haystack.indexOf(needle) !== -1
Contains(hay, needle) ==
    \E i \in 1..(Len(hay) - Len(needle) + 1) :
        SubSeq(hay, i, i + Len(needle) - 1) = needle

RECURSIVE Join(_, _)
\* array.join(sep)
Join(arr, sep) ==
    IF arr = <<>> THEN <<>>
    ELSE IF Len(arr) = 1 THEN arr[1]
    ELSE arr[1] \o sep \o Join(Tail(arr), sep)

InSeq(x, s) == \E i \in 1..Len(s) : s[i] = x

IndexIn(x, s) == CHOOSE i \in 1..Len(s) : s[i] = x

\* the value passed to a completion callback on success
NoError == "null"
\* the errors fs.readFile, tools.mkdir and tools.write produce
Errors == {"ENOENT", "EACCES"}
\* the error a task reports in the runs of the task graph
TaskErrors == {"EFAIL"}

\* ------------------------------------------- build configuration (vars)

VarNames == {"DEVELOP", "LIVERELOAD", "TARGET", "PLATFORM"}

\* JavaScript values of the variables: undefined, a string, a boolean, an object
Undefined == [t |-> "undefined", s |-> <<>>, b |-> FALSE, port |-> 0]
Str(x) == [t |-> "string", s |-> x, b |-> FALSE, port |-> 0]
Bool(x) == [t |-> "boolean", s |-> <<>>, b |-> x, port |-> 0]
Obj(p) == [t |-> "object", s |-> <<>>, b |-> FALSE, port |-> p]

LiveReloadPort == 35729

\* truthiness of a value
Truthy(v) ==
    \/ v.t = "string" /\ v.s # <<>>
    \/ v.t = "boolean" /\ v.b
    \/ v.t = "object"

\* '"' + s + '"'
Quote(s) == <<"\"">> \o s \o <<"\"">>

\* Object.keys(config.vars).forEach: string values are wrapped in quotes
EscapeAll(v) ==
    [n \in VarNames |-> IF v[n].t = "string" THEN Str(Quote(v[n].s)) ELSE v[n]]

\* config.vars after "sanitize and prepare" and "escape string values"
Sanitize(v) ==
    EscapeAll([v EXCEPT
        !["DEVELOP"] = Bool(Truthy(v["DEVELOP"]) /\ v["DEVELOP"] = Str(<<"true">>)),
        !["LIVERELOAD"] = Obj(LiveReloadPort)])

\* as DefinePluginOf, the plugin keeping a copy of the object as it is then
DefinePluginCopy(v) == [byReference |-> FALSE, snapshot |-> v]

\* new webpack.DefinePlugin(config.vars): the plugin keeps the object it is given
DefinePluginOf(v) == [byReference |-> TRUE, snapshot |-> v]

\* the definitions the plugin holds when the bundler runs
Definitions == IF definePlugin.byReference THEN configVars ELSE definePlugin.snapshot

\* String.prototype.toLowerCase on the tokens in use
ToLower(tok) ==
    CASE tok = "TARGET" -> "target"
      [] tok = "MAG" -> "mag"
      [] OTHER -> tok

\* target = path.join('build', TARGET || (PLATFORM || 'TARGET').toLowerCase())
TargetDir(v) ==
    LET platform == IF Truthy(v["PLATFORM"]) THEN v["PLATFORM"].s ELSE <<"TARGET">>
        leaf == IF Truthy(v["TARGET"]) THEN v["TARGET"].s
                ELSE [i \in 1..Len(platform) |-> ToLower(platform[i])]
    IN  <<"build", "/">> \o leaf

\* ------------------------------------------------------------ task names

AllResolutions == <<"480", "576", "720", "1080">>
\* the source lists the four resolutions, in var resolutions and again in the
\* members of sass:build and css:build; the model takes a prefix of that list
resolutions ==
    SubSeq(AllResolutions, 1,
           IF MaxResolutions < Len(AllResolutions) THEN MaxResolutions
           ELSE Len(AllResolutions))
Res == {resolutions[i] : i \in 1..Len(resolutions)}

\* the function values that composites hold directly instead of a name
BuildGettext == <<"serial(", "gettext:prepare", ",", "gettext:build", ")">>
DefaultAfterBuild == <<"parallel(", "watch", ",", "serve", ")">>

\* a task: the function registered under a name
Task(kind, members, res) == [kind |-> kind, members |-> members, res |-> res]
\* a task of a generator of another package
External == Task("external", <<>>, "")
\* what a lookup of an unregistered name gives
Missing == Task("missing", <<>>, "")

\* runner.parallel(...) and runner.serial(...): the composite keeps its arguments
Parallel(members) == Task("parallel", members, "")
Serial(members) == Task("serial", members, "")

\* ---------------------------------------- src/css.js: generator(config, options)

\* generator.options as the module defines it
CssDefaults == [prefix |-> <<"css", ":">>, suffix |-> <<>>]

\* Object.assign(generator.options, options || {}): keys of options overwrite
AssignOptions(target, options) ==
    [k \in DOMAIN target |-> IF k \in DOMAIN options THEN options[k] ELSE target[k]]

\* the three runner.task calls of generator
CssTasks(cfg, options) ==
    (options.prefix \o <<"config">> \o options.suffix) :> Task("cssConfig", <<>>, cfg.resolution)
    @@ (options.prefix \o <<"build">> \o options.suffix) :> Task("cssBuild", <<>>, cfg.resolution)
    @@ (options.prefix \o <<"clear">> \o options.suffix) :> Task("cssClear", <<>>, cfg.resolution)

\* runner.task(name, body) and Object.assign(runner.tasks, ...): later entries win
Register(registry, entries) == entries @@ registry

\* ------------------------------ src/unnamed/part_000: the tasks it declares

\* the config object passed to css() for one resolution
CssConfig(v, resolution) ==
    [resolution |-> resolution,
     outFile |-> TargetDir(v) \o <<"/", "css", "/", "sdk.", resolution, ".css">>,
     mode |-> IF v["DEVELOP"].b THEN "develop" ELSE "release"]

\* 'sass:build:480', 'sass:build:576', 'sass:build:720', 'sass:build:1080'
SassBuildMembers == [i \in 1..Len(resolutions) |-> N3("sass", "build", resolutions[i])]

\* 'css:build:480', 'css:build:576', 'css:build:720', 'css:build:1080'
CssBuildMembers == [i \in 1..Len(resolutions) |-> N3("css", "build", resolutions[i])]

SassBuildTask == Parallel(SassBuildMembers)

CssBuildTask == Parallel(CssBuildMembers)

BuildGettextTask == Serial(<<N2("gettext", "prepare"), N2("gettext", "build")>>)

\* as BuildTask, the members run one after the other
BuildTaskSerial ==
    Serial(<<N2("pug", "build"), N2("sass", "build"), N2("css", "build"),
             N2("webpack", "build"), <<"copy">>, BuildGettext>>)

\* as BuildTask, a body that starts the members and does not wait for them
BuildTaskFireAndForget ==
    Task("watch", <<N2("pug", "build"), N2("sass", "build"), N2("css", "build"),
                    N2("webpack", "build"), <<"copy">>, BuildGettext>>, "")

BuildTask ==
    Parallel(<<N2("pug", "build"), N2("sass", "build"), N2("css", "build"),
               N2("webpack", "build"), <<"copy">>, BuildGettext>>)

\* the body of 'watch' starts two tasks through runner.run and never calls done
WatchTask == Task("watch", <<N2("eslint", "watch"), N2("webpack", "watch")>>, "")

ServeTask ==
    Parallel(<<N2("static", "start"), N2("livereload", "start"),
               N2("repl", "start"), N2("notify", "start")>>)

DefaultAfterBuildTask == Parallel(<<<<"watch">>, <<"serve">>>>)

\* as DefaultTask, 'build' started together with the rest
DefaultTaskParallel == Parallel(<<<<"build">>, DefaultAfterBuild>>)

DefaultTask == Serial(<<<<"build">>, DefaultAfterBuild>>)

\* 'init' ends by runner.run('gettext:prepare', done)
InitTask == Task("init", <<N2("gettext", "prepare")>>, "")

CopyTask == Task("copy", <<>>, "")

GettextPrepareTask == Task("gettextPrepare", <<>>, "")

\* the function values held by composites, by identity
Closures ==
    BuildGettext :> BuildGettextTask @@ DefaultAfterBuild :> DefaultAfterBuildTask

\* the names the generators of other packages register, as far as this
\* repository refers to them
ExternalTasks ==
    [n \in {N2("notify", "start"), N2("repl", "start"), N2("eslint", "watch"),
            N2("gettext", "build"), N2("static", "start"), N2("livereload", "start"),
            N2("webpack", "build"), N2("webpack", "watch")} |-> External]

PugTasks == [n \in {N2("pug", "build")} |-> External]

SassTasks(resolution) == [n \in {N3("sass", "build", resolution)} |-> External]

\* ------------------------- src/unnamed/part_000: module.exports(config)

RECURSIVE PerResolution(_, _, _)
\* resolutions.forEach: the sass generator's tasks and css(config, {suffix})
\* for each resolution from the i-th on; g = [tasks, options]
PerResolution(g, v, i) ==
    IF i > Len(resolutions) THEN g
    ELSE LET resolution == resolutions[i]
             options == AssignOptions(g.options, [suffix |-> <<":", resolution>>])
             withCss == Register(g.tasks, CssTasks(CssConfig(v, resolution), options))
         IN  PerResolution([tasks |-> Register(withCss, SassTasks(resolution)),
                            options |-> options], v, i + 1)

\* the tasks registered under "main tasks"
MainTasks ==
    <<"init">> :> InitTask
    @@ <<"copy">> :> CopyTask
    @@ N2("gettext", "prepare") :> GettextPrepareTask
    @@ N2("sass", "build") :> SassBuildTask
    @@ N2("css", "build") :> CssBuildTask
    @@ <<"build">> :> BuildTask
    @@ <<"watch">> :> WatchTask
    @@ <<"serve">> :> ServeTask
    @@ <<"default">> :> DefaultTask

\* the whole generator: [vars, plugin, tasks, options] after it returns
Generated(cfg, registry, options) ==
    LET plugin == DefinePluginOf(cfg.vars)
        v == Sanitize(cfg.vars)
        common == Register(registry, ExternalTasks)
        g == IF cfg.type = "app"
             THEN PerResolution([tasks |-> Register(common, PugTasks),
                                 options |-> options], v, 1)
             ELSE [tasks |-> common, options |-> options]
    IN  [vars |-> v, plugin |-> plugin,
         tasks |-> Register(g.tasks, MainTasks), options |-> g.options]

\* ---------------- src/css.js from line 100: the generator in its other form
\* (no config.type, no gettext:prepare, init copies .npmignore synchronously)

\* 'build' with 'gettext:build' as a direct member
FlatBuildTask ==
    Parallel(<<N2("pug", "build"), N2("sass", "build"), N2("css", "build"),
               N2("webpack", "build"), N2("gettext", "build"), <<"copy">>>>)

\* 'init' of src/css.js:269
SyncInitTask == Task("initSync", <<>>, "")

\* the tasks registered under "main tasks" in src/css.js
FlatMainTasks ==
    <<"init">> :> SyncInitTask
    @@ <<"copy">> :> CopyTask
    @@ N2("sass", "build") :> SassBuildTask
    @@ N2("css", "build") :> CssBuildTask
    @@ <<"build">> :> FlatBuildTask
    @@ <<"watch">> :> WatchTask
    @@ <<"serve">> :> ServeTask
    @@ <<"default">> :> DefaultTask

\* the whole generator of src/css.js:100
FlatGenerated(cfg, registry, options) ==
    LET plugin == DefinePluginOf(cfg.vars)
        v == Sanitize(cfg.vars)
        common == Register(Register(registry, ExternalTasks), PugTasks)
        g == PerResolution([tasks |-> common, options |-> options], v, 1)
    IN  [vars |-> v, plugin |-> plugin,
         tasks |-> Register(g.tasks, FlatMainTasks), options |-> g.options]

\* no variable supplied
NoVars == [n \in VarNames |-> Undefined]

\* every name and function value a run can meet
Nodes ==
    DOMAIN Generated([type |-> "app", vars |-> NoVars], <<>>, CssDefaults).tasks
    \cup DOMAIN Closures

\* --------------------------------------------- the runner (another package)

\* runner.run resolves a name through the registry; a function value is itself
Lookup(registry, n) ==
    IF n \in DOMAIN Closures THEN Closures[n]
    ELSE IF n \in DOMAIN registry THEN registry[n]
    ELSE Missing

RECURSIVE Start(_, _, _), StartAll(_, _, _, _), Finish(_, _, _, _)

\* runner.run(n, ...): the task function is called. S = [st, calls].
\* A parallel composite calls all its members at once, a serial composite its
\* first member; a function declared without a done parameter ends at once.
Start(registry, S, n) ==
    LET d == Lookup(registry, n)
        S1 == [S EXCEPT !.st[n] = "running"]
    IN  CASE d.kind = "missing" -> [S EXCEPT !.st[n] = "missing"]
          [] d.kind \in {"parallel", "watch"} -> StartAll(registry, S1, d.members, 1)
          [] d.kind = "serial" -> Start(registry, S1, d.members[1])
          [] d.kind = "cssConfig" -> Finish(registry, S1, n, NoError)
          [] OTHER -> S1

StartAll(registry, S, members, i) ==
    IF i > Len(members) THEN S
    ELSE StartAll(registry, Start(registry, S, members[i]), members, i + 1)

\* the completion callback of n is called with a. The callback belongs to
\* the composite (or task body) that started n, if there is one:
\*   parallel: after a first error every later callback is ignored; an error
\*             is reported at once; success is reported when all members
\*             have reported success
\*   serial:   an error is reported at once and the next member is not
\*             started; success starts the next member, or is reported
\*             after the last one
\*   init:     runner.run('gettext:prepare', done) hands done over
\*   watch:    runner.run without a callback
Finish(registry, S, n, a) ==
    LET S1 == [S EXCEPT !.st[n] = "done", !.calls[n] = Append(@, a)]
        owners == {p \in Nodes : /\ S.st[p] \in {"running", "done"}
                                 /\ InSeq(n, Lookup(registry, p).members)}
    IN  IF owners = {} THEN S1
        ELSE LET p == CHOOSE q \in owners : TRUE
                 d == Lookup(registry, p)
             IN  CASE d.kind = "parallel" ->
                        IF S1.calls[p] # <<>> THEN S1
                        ELSE IF a # NoError THEN Finish(registry, S1, p, a)
                        ELSE IF \A i \in 1..Len(d.members) : S1.calls[d.members[i]] # <<>>
                             THEN Finish(registry, S1, p, NoError)
                             ELSE S1
                   [] d.kind = "serial" ->
                        IF a # NoError THEN Finish(registry, S1, p, a)
                        ELSE IF IndexIn(n, d.members) = Len(d.members)
                             THEN Finish(registry, S1, p, NoError)
                             ELSE Start(registry, S1, d.members[IndexIn(n, d.members) + 1])
                   [] d.kind = "init" -> Finish(registry, S1, p, a)
                   [] OTHER -> S1

\* ------------------------------------------- src/css.js: build(config, done)

MagApp == <<"mag", "-", "app">>
ComponentMark == <<"-", "component", "-">>

\* as Modules, with the keys of devDependencies taken before those of dependencies
ModulesDevFirst(pkg) ==
    <<MagApp>> \o SelectSeq(pkg.devDependencies \o pkg.dependencies,
                            LAMBDA moduleName : Contains(moduleName, ComponentMark))

\* modules: 'mag-app', then the keys of dependencies and of devDependencies
\* that contain '-component-'
Modules(pkg) ==
    <<MagApp>> \o SelectSeq(pkg.dependencies \o pkg.devDependencies,
                            LAMBDA moduleName : Contains(moduleName, ComponentMark))

\* path.join('node_modules', moduleName, 'css', mode + '.' + resolution + '.css')
CssPath(moduleName, cfg) ==
    <<"node_modules", "/">> \o moduleName
        \o <<"/", "css", "/", cfg.mode, ".", cfg.resolution, ".css">>

\* what fs.readFile gives for a file that can be read
FileData(path) == <<"/*">> \o path \o <<"*/">>

\* a build that has not been called
CssIdle ==
    [modules |-> <<>>, reads |-> <<>>, results |-> <<>>, callback |-> "none",
     write |-> "none", file |-> [name |-> <<>>, data |-> <<>>], outFile |-> <<>>]

\* build() up to async.parallel: one read per module is under way
CssStarted(pkg) ==
    [CssIdle EXCEPT !.modules = Modules(pkg),
                    !.reads = [i \in 1..Len(Modules(pkg)) |-> "pending"],
                    !.results = [i \in 1..Len(Modules(pkg)) |-> <<>>]]

\* as BuildCallback, without the test of error
BuildCallbackAlways(c, cfg, error, results) ==
    [c EXCEPT !.write = "pending",
              !.file = [name |-> cfg.outFile, data |-> Join(results, <<"\n">>)]]

\* function ( error, results ) of build: the file is written unless a read failed
BuildCallback(c, cfg, error, results) ==
    IF error = NoError
    THEN [c EXCEPT !.write = "pending",
                   !.file = [name |-> cfg.outFile, data |-> Join(results, <<"\n">>)]]
    ELSE c

\* async.parallel as the i-th task calls ready(out, data): a callback after a
\* first error is ignored; a first error is handed to the final callback at
\* once; a result is stored at the index of its task, and the final callback
\* gets the results when all tasks have given one
ParallelReady(c, i, out, data) ==
    LET c1 == [c EXCEPT !.reads[i] = out]
    IN  IF c.callback # "none" THEN [c |-> c1, fire |-> FALSE]
        ELSE IF out # NoError THEN [c |-> [c1 EXCEPT !.callback = out], fire |-> TRUE]
        ELSE LET c2 == [c1 EXCEPT !.results[i] = data]
             IN  IF \A j \in 1..Len(c2.reads) : c2.reads[j] = NoError
                 THEN [c |-> [c2 EXCEPT !.callback = NoError], fire |-> TRUE]
                 ELSE [c |-> c2, fire |-> FALSE]

\* the callback of the i-th fs.readFile of build
CssAfterRead(c, cfg, i, out) ==
    LET p == ParallelReady(c, i, out, FileData(CssPath(c.modules[i], cfg)))
    IN  IF p.fire THEN BuildCallback(p.c, cfg, p.c.callback, p.c.results) ELSE p.c

\* ------------------------------------------------------------- the state

NoPlugin == [byReference |-> FALSE, snapshot |-> NoVars]
NotBundled == [ran |-> FALSE, definitions |-> NoVars]
InitIdle == [pc |-> "idle", steps |-> <<>>, mkdir |-> "none", read |-> "none", write |-> "none"]
NoPackages == [dependencies |-> <<>>, devDependencies |-> <<>>]

\* the values of config.vars the runs of the task graph are explored with
GraphVars == {NoVars}

Idle ==
    /\ root = <<>>
    /\ st = [n \in Nodes |-> "idle"]
    /\ calls = [n \in Nodes |-> <<>>]
    /\ css = [r \in Res |-> CssIdle]
    /\ init = InitIdle
    /\ bundled = NotBundled
    /\ failures = 0

Init ==
    /\ phase = "startup"
    /\ config \in [type : {"app", "lib"}, vars : GraphVars]
    /\ configVars = config.vars
    /\ definePlugin = NoPlugin
    /\ cssOptions = CssDefaults
    /\ tasks = <<>>
    /\ packageData = NoPackages
    /\ Idle

\* ------------------------------------------------------------- actions

\* module.exports(config) of src/unnamed/part_000
Generator ==
    /\ phase = "startup"
    /\ LET g == Generated(config, tasks, cssOptions)
       IN  /\ configVars' = g.vars
           /\ definePlugin' = g.plugin
           /\ tasks' = g.tasks
           /\ cssOptions' = g.options
    /\ phase' = "registered"
    /\ UNCHANGED <<config, bundled, packageData, root, st, calls, css, init, failures>>

\* module.exports(config) of src/css.js:100
FlatGenerator ==
    /\ phase = "startup"
    /\ LET g == FlatGenerated(config, tasks, cssOptions)
       IN  /\ configVars' = g.vars
           /\ definePlugin' = g.plugin
           /\ tasks' = g.tasks
           /\ cssOptions' = g.options
    /\ phase' = "registered"
    /\ UNCHANGED <<config, bundled, packageData, root, st, calls, css, init, failures>>

\* the tasks that S starts and that were not started before
NewlyStarted(S) == {n \in Nodes : st[n] = "idle" /\ S.st[n] = "running"}

\* the state after the callbacks of one event have run: S = [st, calls],
\* c and i the css and init states the event itself leaves
Commit(S, c, i) ==
    LET started == NewlyStarted(S)
        kinds == {Lookup(tasks, n).kind : n \in started}
    IN  /\ st' = S.st
        /\ calls' = S.calls
        /\ css' = IF "cssBuild" \in kinds
                  THEN [r \in Res |->
                          IF \E n \in started : /\ Lookup(tasks, n).kind = "cssBuild"
                                                /\ Lookup(tasks, n).res = r
                          THEN CssStarted(packageData) ELSE c[r]]
                  ELSE c
        /\ init' = IF kinds \cap {"init", "initSync"} # {}
                   THEN [InitIdle EXCEPT !.pc = "mkdir", !.steps = <<"mkdir">>]
                   ELSE i
        /\ bundled' = IF started \cap {N2("webpack", "build"), N2("webpack", "watch")} # {}
                      THEN [ran |-> TRUE, definitions |-> Definitions]
                      ELSE bundled

Now == [st |-> st, calls |-> calls]

\* runner.run(n) from the command line
Run(n) ==
    /\ phase = "registered"
    /\ n \in DOMAIN tasks
    /\ phase' = "running"
    /\ root' = n
    /\ Commit(Start(tasks, Now, n), css, init)
    /\ UNCHANGED <<config, configVars, definePlugin, cssOptions, tasks, packageData, failures>>

\* an operation may fail while the bound on failures allows it
MayEnd(out) == out # NoError => failures < MaxFailures

Cost(out) == IF out = NoError THEN 0 ELSE 1

\* the kinds of task that are one asynchronous operation handing done its result:
\* tasks of other packages, tools.copy, tools.write, tools.unlink
Operations == {"external", "copy", "gettextPrepare", "cssClear"}

\* such a task ends and calls done(out)
TaskDone(n, out) ==
    /\ phase = "running"
    /\ st[n] = "running"
    /\ Lookup(tasks, n).kind \in Operations
    /\ MayEnd(out)
    /\ failures' = failures + Cost(out)
    /\ Commit(Finish(tasks, Now, n, out), css, init)
    /\ UNCHANGED <<phase, config, configVars, definePlugin, cssOptions, tasks, packageData, root>>

\* the running task that is build() for resolution r
CssBuildOf(r) ==
    {n \in Nodes : /\ st[n] = "running"
                   /\ Lookup(tasks, n).kind = "cssBuild"
                   /\ Lookup(tasks, n).res = r}

\* fs.readFile of the i-th module calls ready(out, data)
CssReadDone(r, i, out) ==
    /\ phase = "running"
    /\ i \in 1..Len(css[r].reads)
    /\ css[r].reads[i] = "pending"
    /\ MayEnd(out)
    /\ failures' = failures + Cost(out)
    /\ css' = [css EXCEPT ![r] = CssAfterRead(@, CssConfig(configVars, r), i, out)]
    /\ UNCHANGED <<phase, config, configVars, definePlugin, bundled, cssOptions, tasks,
                   packageData, root, st, calls, init>>

\* tools.write of build() ends and calls done(out)
CssWriteDone(r, out) ==
    /\ phase = "running"
    /\ css[r].write = "pending"
    /\ MayEnd(out)
    /\ failures' = failures + Cost(out)
    /\ \E n \in CssBuildOf(r) :
          Commit(Finish(tasks, Now, n, out),
                 [css EXCEPT ![r].write = "done",
                             ![r].outFile = IF out = NoError THEN css[r].file.data ELSE @],
                 init)
    /\ UNCHANGED <<phase, config, configVars, definePlugin, cssOptions, tasks, packageData, root>>

\* 'init': tools.mkdir calls its callback, which reads .npmignore whatever it is given
InitMkdirDone(out) ==
    /\ phase = "running"
    /\ init.pc = "mkdir"
    /\ Lookup(tasks, <<"init">>).kind = "init"
    /\ MayEnd(out)
    /\ failures' = failures + Cost(out)
    /\ init' = [init EXCEPT !.pc = "read", !.mkdir = out, !.steps = Append(@, "read")]
    /\ UNCHANGED <<phase, config, configVars, definePlugin, bundled, cssOptions, tasks,
                   packageData, root, st, calls, css>>

\* 'init': fs.readFile('.npmignore') calls back: done(true) on an error,
\* tools.write otherwise
InitReadDone(out) ==
    /\ phase = "running"
    /\ init.pc = "read"
    /\ MayEnd(out)
    /\ failures' = failures + Cost(out)
    /\ IF out # NoError
       THEN Commit(Finish(tasks, Now, <<"init">>, "true"), css,
                   [init EXCEPT !.pc = "done", !.read = out])
       ELSE Commit(Now, css,
                   [init EXCEPT !.pc = "write", !.read = out, !.steps = Append(@, "write")])
    /\ UNCHANGED <<phase, config, configVars, definePlugin, cssOptions, tasks, packageData, root>>

\* as InitWriteDone, with gettext:prepare registered only here
InitWriteDoneRegistering(out) ==
    /\ phase = "running"
    /\ init.pc = "write"
    /\ MayEnd(out)
    /\ failures' = failures + Cost(out)
    /\ tasks' = Register(tasks, N3("gettext", "prepare", "init") :> GettextPrepareTask)
    /\ Commit(Start(tasks, Now, N2("gettext", "prepare")), css,
              [init EXCEPT !.pc = "gettext", !.write = out, !.steps = Append(@, "gettext")])
    /\ UNCHANGED <<phase, config, configVars, definePlugin, cssOptions, packageData, root>>

\* 'init': tools.write calls its callback, which runs gettext:prepare
\* whatever it is given
InitWriteDone(out) ==
    /\ phase = "running"
    /\ init.pc = "write"
    /\ MayEnd(out)
    /\ failures' = failures + Cost(out)
    /\ Commit(Start(tasks, Now, N2("gettext", "prepare")), css,
              [init EXCEPT !.pc = "gettext", !.write = out, !.steps = Append(@, "gettext")])
    /\ UNCHANGED <<phase, config, configVars, definePlugin, cssOptions, tasks, packageData, root>>

\* 'init' of src/css.js:269: tools.mkdir calls function ( error ), which copies
\* .npmignore with readFileSync and writeFileSync and then calls done(error);
\* a copy that throws leaves the callback before done
SyncInitMkdirDone(out, readOut, writeOut) ==
    /\ phase = "running"
    /\ init.pc = "mkdir"
    /\ Lookup(tasks, <<"init">>).kind = "initSync"
    /\ readOut # NoError => writeOut = NoError
    /\ failures + Cost(out) + Cost(readOut) + Cost(writeOut) <= MaxFailures
    /\ failures' = failures + Cost(out) + Cost(readOut) + Cost(writeOut)
    /\ LET i == [init EXCEPT !.mkdir = out,
                             !.read = readOut,
                             !.write = IF readOut = NoError THEN writeOut ELSE @,
                             !.steps = IF readOut = NoError
                                       THEN @ \o <<"read", "write">> ELSE @ \o <<"read">>]
       IN  IF readOut # NoError \/ writeOut # NoError
           THEN Commit(Now, css, [i EXCEPT !.pc = "thrown"])
           ELSE Commit(Finish(tasks, Now, <<"init">>, out), css, [i EXCEPT !.pc = "done"])
    /\ UNCHANGED <<phase, config, configVars, definePlugin, cssOptions, tasks, packageData, root>>

Outcomes == {NoError} \cup Errors
TaskOutcomes == {NoError} \cup TaskErrors

\* the targets run from the command line: every name a run can meet but
\* 'build', which is run as the first step of 'default'
Targets == (Nodes \ DOMAIN Closures) \ {<<"build">>}

Generate == Generator

RunTarget == \E n \in Targets : Run(n)

TaskEnds == \E n \in Nodes, out \in TaskOutcomes : TaskDone(n, out)

\* in the runs of the task graph a read or write of build() fails in one way
CssReadEnds ==
    \E r \in Res : \E i \in DOMAIN css[r].reads, out \in TaskOutcomes : CssReadDone(r, i, out)

CssWriteEnds == \E r \in Res, out \in TaskOutcomes : CssWriteDone(r, out)

InitMkdirEnds == \E out \in Outcomes : InitMkdirDone(out)

InitReadEnds == \E out \in Outcomes : InitReadDone(out)

InitWriteEnds == \E out \in Outcomes : InitWriteDone(out)

Next ==
    \/ Generate
    \/ RunTarget
    \/ TaskEnds
    \/ CssReadEnds
    \/ CssWriteEnds
    \/ InitMkdirEnds
    \/ InitReadEnds
    \/ InitWriteEnds

\* the generator, then one target
Spec == Init /\ [][Next]_vars

GenerateFlat == FlatGenerator

SyncInitMkdirEnds ==
    \E out \in Outcomes, readOut \in Outcomes, writeOut \in Outcomes :
        SyncInitMkdirDone(out, readOut, writeOut)

NextFlat ==
    \/ GenerateFlat
    \/ RunTarget
    \/ TaskEnds
    \/ CssReadEnds
    \/ CssWriteEnds
    \/ SyncInitMkdirEnds

\* the generator of src/css.js:100, then one target
SpecFlat == Init /\ [][NextFlat]_vars

\* ------------------------------------------- build() on its own

\* package names: two that contain '-component-', one that does not
PackageNames ==
    {<<"mag", "-", "component", "-", "list">>, <<"stb", "-", "component", "-", "page">>,
     <<"mag", "-", "app">>}

\* the keys of a dependencies object, in declaration order: no key twice
KeyLists ==
    {keys \in UNION {[1..n -> PackageNames] : n \in 0..MaxDeps} :
        \A i, j \in DOMAIN keys : keys[i] = keys[j] => i = j}

Packages == [dependencies : KeyLists, devDependencies : KeyLists]

\* the state once the generator has run for cfg
Registered(cfg) ==
    LET g == Generated(cfg, <<>>, CssDefaults)
    IN  /\ phase = "registered"
        /\ config = cfg
        /\ configVars = g.vars
        /\ definePlugin = g.plugin
        /\ cssOptions = g.options
        /\ tasks = g.tasks
        /\ Idle

InitCss ==
    /\ \E develop \in {Undefined, Str(<<"true">>)} :
          Registered([type |-> "app", vars |-> [NoVars EXCEPT !["DEVELOP"] = develop]])
    /\ packageData \in Packages

RunCssBuild == Run(N3("css", "build", resolutions[1]))

CssReadReturns ==
    \E r \in Res : \E i \in DOMAIN css[r].reads, out \in Outcomes : CssReadDone(r, i, out)

CssWriteReturns == \E r \in Res, out \in Outcomes : CssWriteDone(r, out)

NextCss ==
    \/ RunCssBuild
    \/ CssReadReturns
    \/ CssWriteReturns

\* one css:build:<resolution> task, for the package.json files within the bounds
SpecCss == InitCss /\ [][NextCss]_vars

\* ------------------------------------------- the variables and the bundler

VarInputs ==
    {v \in [VarNames -> {Undefined, Bool(TRUE), Str(<<>>), Str(<<"true">>),
                         Str(<<"false">>), Str(<<"MAG">>)}] :
        /\ v["PLATFORM"].t # "boolean"
        /\ v["TARGET"].t # "boolean"
        /\ v["LIVERELOAD"] \in {Undefined, Str(<<"true">>)}}

InitVars ==
    /\ phase = "startup"
    /\ config \in [type : {"app"}, vars : VarInputs]
    /\ configVars = config.vars
    /\ definePlugin = NoPlugin
    /\ cssOptions = CssDefaults
    /\ tasks = <<>>
    /\ packageData = NoPackages
    /\ Idle

RunBundler == \E n \in {N2("webpack", "build"), N2("webpack", "watch")} : Run(n)

NextVars ==
    \/ Generate
    \/ RunBundler
    \/ TaskEnds

\* the generator, then a task of the bundler
SpecVars == InitVars /\ [][NextVars]_vars

\* --------------------------------- the css generator called on its own

\* options || {} for a call without options
NoOptions == <<>>

\* the options a caller passes: none, a suffix per resolution, a prefix
CallerOptions ==
    {NoOptions}
    \cup {[suffix |-> <<":", r>>] : r \in Res}
    \cup {[prefix |-> <<"sdk", ":">>]}

\* generator(config, options) of src/css.js: Object.assign changes
\* generator.options itself, then the three tasks are registered under the
\* names built from it
CssGeneratorCall(cfg, options) ==
    /\ phase # "running"
    /\ phase' = "registered"
    /\ cssOptions' = AssignOptions(cssOptions, options)
    /\ tasks' = Register(tasks, CssTasks(cfg, cssOptions'))
    /\ UNCHANGED <<config, configVars, definePlugin, bundled, packageData, root, st,
                   calls, css, init, failures>>

CssCallWithOptions ==
    \E r \in Res, options \in CallerOptions \ {NoOptions} :
        CssGeneratorCall(CssConfig(NoVars, r), options)

CssCallWithoutOptions ==
    \E r \in Res : CssGeneratorCall(CssConfig(NoVars, r), NoOptions)

NextOptions ==
    \/ CssCallWithOptions
    \/ CssCallWithoutOptions

\* any sequence of calls of the css generator
SpecOptions == Init /\ [][NextOptions]_vars

\* =================================================================
\* Properties
\* =================================================================

AllErrors == Errors \cup TaskErrors

\* the argument list of a completion callback that was called once, with an error
ReportsFailureOnce(cs) == Len(cs) = 1 /\ cs[1] # NoError

\* a package name contains '-component-'
HasComponentMark(name) ==
    \E i \in 1..(Len(name) - 2) :
        name[i] = "-" /\ name[i + 1] = "component" /\ name[i + 2] = "-"

RECURSIVE ComponentsOf(_)
\* the names of a key list that contain '-component-', in declaration order
ComponentsOf(keys) ==
    IF keys = <<>> THEN <<>>
    ELSE (IF HasComponentMark(Head(keys)) THEN <<Head(keys)>> ELSE <<>>)
         \o ComponentsOf(Tail(keys))

\* the module list the build is to follow
DeclaredModules ==
    <<MagApp>> \o ComponentsOf(packageData.dependencies)
               \o ComponentsOf(packageData.devDependencies)

RECURSIVE Glued(_, _)
\* the contents of the modules' files for resolution r, one after the other
\* with a newline between two of them
Glued(names, r) ==
    LET data == FileData(CssPath(Head(names), CssConfig(configVars, r)))
    IN  IF Len(names) = 1 THEN data
        ELSE data \o <<"\n">> \o Glued(Tail(names), r)

AllReadsSucceeded(r) ==
    /\ css[r].reads # <<>>
    /\ \A i \in DOMAIN css[r].reads : css[r].reads[i] = NoError

SomeReadFailed(r) == \E i \in DOMAIN css[r].reads : css[r].reads[i] \in AllErrors

\* C1: once every read of a css build has succeeded, in whatever order the
\* reads completed, tools.write has been given config.outFile and the file
\* contents joined by newline in the order 'mag-app', dependencies with
\* '-component-', devDependencies with '-component-'; a write that succeeds
\* leaves exactly that data in the file.
C1_OutputInDeclarationOrder ==
    \A r \in Res :
        /\ AllReadsSucceeded(r) =>
              /\ css[r].write # "none"
              /\ css[r].file.name = CssConfig(configVars, r).outFile
              /\ css[r].file.data = Glued(DeclaredModules, r)
        /\ css[r].outFile # <<>> => css[r].outFile = Glued(DeclaredModules, r)

\* a build over modules from both dependency lists has written its file
C1_Witness ==
    \E r \in Res :
        /\ ComponentsOf(packageData.dependencies) # <<>>
        /\ ComponentsOf(packageData.devDependencies) # <<>>
        /\ Len(packageData.dependencies) > Len(ComponentsOf(packageData.dependencies))
        /\ AllReadsSucceeded(r)
        /\ css[r].write = "done"
        /\ css[r].outFile = css[r].file.data

\* C2: when a read of a css build has failed, tools.write has not been called
\* and nothing is written to the output file, however many other reads
\* succeeded and whether they completed before or after the failure.
C2_NoWriteAfterFailedRead ==
    \A r \in Res :
        SomeReadFailed(r) => css[r].write = "none" /\ css[r].outFile = <<>>

\* the second of three reads failed and the two others succeeded
C2_Witness ==
    \E r \in Res :
        /\ Len(css[r].reads) = 3
        /\ css[r].reads[1] = NoError
        /\ css[r].reads[2] \in Errors
        /\ css[r].reads[3] = NoError

\* C3: when a CSS file read fails in a css build, done of that task has been
\* called with that error; when the read of .npmignore fails in init, done of
\* init has been called with that error.
C3_ErrorReachesDoneUnchanged ==
    /\ \A n \in Nodes :
          (st[n] # "idle" /\ Lookup(tasks, n).kind = "cssBuild"
              /\ css[Lookup(tasks, n).res].callback \in AllErrors)
          => calls[n] = <<css[Lookup(tasks, n).res].callback>>
    /\ init.read \in AllErrors => calls[<<"init">>] = <<init.read>>

\* C4: in a run of 'default', 'watch' and 'serve' (and the composite that
\* holds them) are started only when 'build' has reported success; in the
\* 'build' of that run, 'gettext:build' is started only when
\* 'gettext:prepare' has reported success.
C4_SerialStopsAtFirstFailure ==
    root = <<"default">> =>
        /\ (st[<<"watch">>] # "idle" \/ st[<<"serve">>] # "idle"
               \/ st[DefaultAfterBuild] # "idle")
              => calls[<<"build">>] = <<NoError>>
        /\ st[<<"build">>] # "idle"
        /\ st[N2("gettext", "build")] # "idle"
              => calls[N2("gettext", "prepare")] = <<NoError>>

\* 'build' has succeeded and 'watch' and 'serve' are running
C4_Witness ==
    /\ root = <<"default">>
    /\ calls[<<"build">>] = <<NoError>>
    /\ calls[N2("gettext", "build")] = <<NoError>>
    /\ st[<<"watch">>] = "running"
    /\ st[<<"serve">>] = "running"

\* the members the parallel composites are to have
MembersToHave(c) ==
    CASE c = <<"build">> ->
            {N2("pug", "build"), N2("sass", "build"), N2("css", "build"),
             N2("webpack", "build"), <<"copy">>, BuildGettext}
      [] c = N2("sass", "build") -> {N3("sass", "build", r) : r \in Res}
      [] c = N2("css", "build") -> {N3("css", "build", r) : r \in Res}
      [] c = <<"serve">> ->
            {N2("static", "start"), N2("livereload", "start"),
             N2("repl", "start"), N2("notify", "start")}

ReportedFailure(n) == calls[n] # <<>> /\ calls[n][1] # NoError

\* C5: while 'build', 'sass:build' or 'css:build' runs, as soon as one of its
\* members has reported failure the composite has reported failure, and it
\* has reported exactly once, whatever the other members did before or do after.
C5_ParallelReportsFailureOnce ==
    \A c \in {<<"build">>, N2("sass", "build"), N2("css", "build")} :
        /\ Len(calls[c]) <= 1
        /\ st[c] # "idle" =>
              \A m \in MembersToHave(c) :
                  ReportedFailure(m) => ReportsFailureOnce(calls[c])

\* two members of 'build' have failed, one of them a composite, and 'build'
\* has reported once
C5_Witness ==
    /\ root = <<"default">>
    /\ ReportedFailure(<<"copy">>)
    /\ ReportedFailure(N2("css", "build"))
    /\ calls[N2("pug", "build")] = <<NoError>>
    /\ ReportsFailureOnce(calls[<<"build">>])

ParallelComposites == {<<"build">>, N2("sass", "build"), N2("css", "build"), <<"serve">>}

\* C6: a parallel composite that has been started has handed every member to
\* the runner; it has reported success only if every member has; and a member
\* in flight after the composite has reported failure stays in flight until
\* it ends by its own completion callback.
C6_ParallelStartsAllWaitsForAllCancelsNone ==
    /\ [](\A c \in ParallelComposites :
            st[c] # "idle" =>
                /\ \A m \in MembersToHave(c) : st[m] # "idle"
                /\ calls[c] = <<NoError>> =>
                      \A m \in MembersToHave(c) : calls[m] = <<NoError>>)
    /\ [][\A c \in ParallelComposites :
            \A m \in MembersToHave(c) :
                (ReportedFailure(c) /\ st[m] = "running") =>
                    \/ st'[m] = "running" /\ calls'[m] = calls[m]
                    \/ st'[m] = "done" /\ Len(calls'[m]) = Len(calls[m]) + 1]_vars

\* 'build' has reported failure while other members are still in flight
C6_Witness ==
    /\ root = <<"default">>
    /\ ReportedFailure(<<"build">>)
    /\ ReportedFailure(<<"copy">>)
    /\ st[N2("pug", "build")] = "running"
    /\ st[N2("sass", "build")] = "running"
    /\ calls[N2("webpack", "build")] = <<NoError>>

\* a string value that is wrapped in one pair of double quotes around s
Wrapped(v, s) == v = Str(<<"\"">> \o s \o <<"\"">>)

\* C7: the definitions the bundler substitutes are the sanitized ones: every
\* variable other than DEVELOP and LIVERELOAD that was supplied as a string is
\* that string in one pair of double quotes, DEVELOP is the boolean that is
\* true exactly when the string 'true' was supplied, LIVERELOAD is the object
\* with port 35729, and every string among the definitions begins and ends
\* with a double quote.
C7_BundlerGetsSanitizedVars ==
    bundled.ran =>
        /\ \A n \in VarNames \ {"DEVELOP", "LIVERELOAD"} :
              config.vars[n].t = "string" =>
                  Wrapped(bundled.definitions[n], config.vars[n].s)
        /\ bundled.definitions["DEVELOP"] = Bool(config.vars["DEVELOP"] = Str(<<"true">>))
        /\ bundled.definitions["LIVERELOAD"] = Obj(35729)
        /\ \A n \in VarNames :
              bundled.definitions[n].t = "string" =>
                  /\ Len(bundled.definitions[n].s) >= 2
                  /\ Head(bundled.definitions[n].s) = "\""
                  /\ bundled.definitions[n].s[Len(bundled.definitions[n].s)] = "\""

\* the bundler has run with DEVELOP supplied as 'true' and two other strings
C7_Witness ==
    /\ bundled.ran
    /\ config.vars["DEVELOP"] = Str(<<"true">>)
    /\ config.vars["TARGET"] = Str(<<"MAG">>)
    /\ config.vars["PLATFORM"] = Str(<<>>)
    /\ config.vars["LIVERELOAD"] = Str(<<"true">>)

\* C8: the registry is empty until the generator has run, and once it has
\* run no step of any task adds, removes or replaces an entry.
C8_RegistryFixedAfterStartup ==
    /\ [](phase = "startup" => tasks = <<>>)
    /\ [][phase # "startup" => tasks' = tasks]_vars

\* 'init' has run to its end, through gettext:prepare
C8_Witness ==
    /\ root = <<"init">>
    /\ init.steps = <<"mkdir", "read", "write", "gettext">>
    /\ calls[<<"init">>] = <<NoError>>
    /\ DOMAIN tasks # {}

\* an underlying operation is still under way
Pending ==
    \/ \E n \in Nodes : st[n] = "running" /\ Lookup(tasks, n).kind \in Operations
    \/ \E r \in Res : css[r].write = "pending"
    \/ \E r \in Res : \E i \in DOMAIN css[r].reads : css[r].reads[i] = "pending"
    \/ init.pc \in {"mkdir", "read", "write"}

\* C9: when a read of a css:build:<resolution> task has failed and no
\* operation is under way any more, the task has called done, and 'css:build'
\* and 'build', if they run, have reported failure.
C9_FailedReadIsReported ==
    \A n \in Nodes :
        (/\ st[n] # "idle"
         /\ Lookup(tasks, n).kind = "cssBuild"
         /\ css[Lookup(tasks, n).res].callback \in AllErrors
         /\ ~Pending)
        => /\ calls[n] # <<>>
           /\ st[N2("css", "build")] # "idle" => ReportedFailure(N2("css", "build"))
           /\ st[<<"build">>] # "idle" => ReportedFailure(<<"build">>)

\* C10: the steps of init run in the order mkdir, read, write, gettext; a step
\* that fails is the last one to run and makes done report failure; done is
\* called at most once.
C10_InitStopsAtFirstFailure ==
    /\ init.steps = SubSeq(<<"mkdir", "read", "write", "gettext">>, 1, Len(init.steps))
    /\ Len(calls[<<"init">>]) <= 1
    /\ init.mkdir \in Errors =>
          init.steps = <<"mkdir">> /\ ReportsFailureOnce(calls[<<"init">>])
    /\ init.read \in Errors =>
          init.steps = <<"mkdir", "read">> /\ ReportsFailureOnce(calls[<<"init">>])
    /\ init.write \in Errors =>
          init.steps = <<"mkdir", "read", "write">> /\ ReportsFailureOnce(calls[<<"init">>])

\* the names and function values a composite refers to
MembersOf(n) ==
    {Lookup(tasks, n).members[i] : i \in DOMAIN Lookup(tasks, n).members}

\* the registered composite tasks and the function values passed to them
Composites ==
    LET registered == {n \in DOMAIN tasks : tasks[n].kind \in {"parallel", "serial"}}
    IN  registered
        \cup {m \in DOMAIN Closures : \E n \in registered : m \in MembersOf(n)}

\* C11: once the generator has run, every member of every composite task is a
\* registered name (or a function value), whatever config.type is, and no
\* lookup made by a run has failed.
C11_CompositeMembersRegistered ==
    phase # "startup" =>
        /\ \A n \in Composites : MembersOf(n) \subseteq DOMAIN tasks \cup DOMAIN Closures
        /\ \A n \in Nodes : st[n] # "missing"

\* the names a call without options registers in the current state
RegisteredWithoutOptions ==
    UNION {DOMAIN CssTasks(CssConfig(NoVars, r), AssignOptions(cssOptions, NoOptions)) :
              r \in Res}

\* C12: generator.options stays {prefix: 'css:', suffix: ''} whatever calls
\* have been made, so a call without options registers exactly 'css:config',
\* 'css:build' and 'css:clear'.
C12_DefaultOptionsUnchanged ==
    /\ cssOptions = CssDefaults
    /\ RegisteredWithoutOptions = {N2("css", "config"), N2("css", "build"), N2("css", "clear")}

====
